---- MODULE Spec2Model ----
(***************************************************************************)
(* Model of the README-generation backend:                                 *)
(*   backend/docgen_agent.py   DocGenAgent.generate, _build_prompt         *)
(*   backend/gemini_client.py  GeminiClient.__init__, generate_content     *)
(*                                                                         *)
(* Each request is one invocation of DocGenAgent.generate.  An invocation  *)
(* is cut into steps at every access to state outside the invocation: the  *)
(* module-level key of the provider library (genai.configure) and the two  *)
(* blocking remote calls (genai.list_models, model.generate_content).      *)
(* The provider is the environment: it answers a pending call with a value *)
(* or an error, or never answers.                                          *)
(***************************************************************************)
EXTENDS Integers, Sequences, FiniteSets, TLC

\* ---------------------------------------------------------------- bounds
MaxLen == 2          \* longest response text the provider returns
MaxModels == 2       \* longest model list the provider returns

\* ------------------------------------------------------- program constants
StructureLimit == 40 \* analysis.get('structure', [])[:40]

\* --------------------------------------------------------------- universes
Invocations == {"r1", "r2"}

None == "<None>"     \* Python None where a str is expected
Keys == {"k1", "k2"} \* API keys a request can carry
EnvKey == "kE"       \* a key found in GEMINI_API_KEY
SuppliedValues == {None, ""} \cup Keys
EnvValues == {None, "", EnvKey}

Whitespace == {" "}
Chars == {" ", "a"}
ModelNames == {<<"m1", "m2", "m3", "m4">>[k] : k \in 1..MaxModels}
ProviderMessage == "quota exceeded"

RECURSIVE SeqsUpTo(_, _)
SeqsUpTo(S, n) ==
    IF n = 0 THEN {<<>>}
    ELSE LET shorter == SeqsUpTo(S, n - 1)
         IN  shorter \cup {Append(s, x) : s \in {t \in shorter : Len(t) = n - 1}, x \in S}

Texts == SeqsUpTo(Chars, MaxLen)

\* the response object of model.generate_content: None, an object whose
\* .text is None, or an object with a text
Responses ==
    {[kind |-> "None", text |-> <<>>], [kind |-> "NoText", text |-> <<>>]}
    \cup {[kind |-> "Text", text |-> t] : t \in Texts}
NoResponse == [kind |-> "Pending", text |-> <<>>]

\* a model as listed by the provider
Model == [name : ModelNames, generateContent : BOOLEAN]
ModelLists ==
    {ms \in SeqsUpTo(Model, MaxModels) :
        \A p, q \in 1..Len(ms) : p # q => ms[p].name # ms[q].name}

\* the analysis a request carries; the orchestration does not branch on it
Analyses ==
    { [name |-> "demo", structure |-> <<"a.py", "b.py">>, languages |-> <<"Python">>,
       frameworks |-> <<>>, fileCount |-> 2, estimatedLOC |-> 50] }
NoAnalysis ==
    [name |-> "", structure |-> <<>>, languages |-> <<>>,
     frameworks |-> <<>>, fileCount |-> 0, estimatedLOC |-> 0]

\* ------------------------------------------------------------ pure helpers
\* Python truthiness of an Optional[str]
Truthy(s) == s # None /\ s # ""

\* Python `a or b`
PyOr(a, b) == IF Truthy(a) THEN a ELSE b

RECURSIVE LStrip(_)
LStrip(s) ==
    IF s = <<>> THEN s
    ELSE IF Head(s) \in Whitespace THEN LStrip(Tail(s)) ELSE s

RECURSIVE RStrip(_)
RStrip(s) ==
    IF s = <<>> THEN s
    ELSE IF s[Len(s)] \in Whitespace THEN RStrip(SubSeq(s, 1, Len(s) - 1)) ELSE s

\* str.strip()
Strip(s) == RStrip(LStrip(s))

\* sep.join(parts), as the sequence of its pieces
RECURSIVE Join(_, _)
Join(sep, parts) ==
    IF parts = <<>> THEN <<>>
    ELSE IF Len(parts) = 1 THEN parts
    ELSE <<Head(parts), sep>> \o Join(sep, Tail(parts))

\* seq[:n]
Take(s, n) == SubSeq(s, 1, IF Len(s) < n THEN Len(s) ELSE n)

\* str(n) of the counts that occur in Analyses
Str(n) == CASE n = 0 -> "0" [] n = 2 -> "2" [] n = 50 -> "50"

\* DocGenAgent._build_prompt, as the sequence of the template's pieces
BuildPrompt(analysis) ==
    LET structure_preview == Join("\n", Take(analysis.structure, StructureLimit))
        languages == Join(", ", analysis.languages)
        frameworks == Join(", ", analysis.frameworks)
    IN  <<"PROJECT ANALYSIS:", "- Name: ", analysis.name, "- Primary Languages: ">>
        \o (IF languages # <<>> THEN languages ELSE <<"Not detected">>)
        \o <<"- Frameworks/Tools: ">>
        \o (IF frameworks # <<>> THEN frameworks ELSE <<"Not detected">>)
        \o <<"- Total Files: ", Str(analysis.fileCount),
             "- Estimated Lines of Code: ", Str(analysis.estimatedLOC),
             "PROJECT STRUCTURE:">>
        \o structure_preview
        \o <<"REQUIREMENTS FOR THE README:", "Generate the README now:">>
NoPrompt == <<>>

\* ---------------------------------------------------------------- results
NoResult == [status |-> "pending", type |-> "", msg |-> <<>>, value |-> <<>>]
Returned(v) == [status |-> "returned", type |-> "", msg |-> <<>>, value |-> v]
Raised(t, m) == [status |-> "raised", type |-> t, msg |-> m, value |-> <<>>]

MissingCredential == Raised("ValueError", <<"GEMINI_API_KEY not provided.">>)
NoCapableModel == Raised("ValueError", <<"No models available that support generateContent">>)
EmptyGeneration == Raised("ValueError", <<"Empty response from Gemini">>)
ProviderError == Raised("ProviderError", <<ProviderMessage>>)

\* except Exception as e: raise Exception(f"Gemini API error: {str(e)}")
Wrap(e) == Raised("Exception", <<"Gemini API error: ">> \o e.msg)
GenerationFailed == Wrap(ProviderError)

\* ------------------------------------------------------------------ state
VARIABLES
    env,              \* os.getenv('GEMINI_API_KEY'), fixed for the process
    configured,       \* the key held by the provider library (genai.configure)
    pc,               \* position of each invocation
    api_key,          \* argument of generate
    analysis,         \* argument of generate
    key_to_use,       \* local of generate
    available_models, \* local of GeminiClient.__init__
    model,            \* GeminiClient.model, by name
    prompt,           \* local of generate
    response,         \* local of generate_content
    result,           \* what generate returned or raised
    listKey,          \* key under which list_models ran
    genKey,           \* key under which generate_content ran
    genModel,         \* model the generation request was addressed to
    configCalls,      \* number of genai.configure calls of the invocation
    listCalls,        \* number of genai.list_models calls of the invocation
    genCalls          \* number of model.generate_content calls of the invocation

vars == <<env, configured, pc, api_key, analysis, key_to_use, available_models,
          model, prompt, response, result, listKey, genKey, genModel,
          configCalls, listCalls, genCalls>>

Init ==
    /\ env \in EnvValues
    /\ configured = None
    /\ pc = [i \in Invocations |-> "idle"]
    /\ api_key = [i \in Invocations |-> None]
    /\ analysis = [i \in Invocations |-> NoAnalysis]
    /\ key_to_use = [i \in Invocations |-> None]
    /\ available_models = [i \in Invocations |-> <<>>]
    /\ model = [i \in Invocations |-> None]
    /\ prompt = [i \in Invocations |-> NoPrompt]
    /\ response = [i \in Invocations |-> NoResponse]
    /\ result = [i \in Invocations |-> NoResult]
    /\ listKey = [i \in Invocations |-> None]
    /\ genKey = [i \in Invocations |-> None]
    /\ genModel = [i \in Invocations |-> None]
    /\ configCalls = [i \in Invocations |-> 0]
    /\ listCalls = [i \in Invocations |-> 0]
    /\ genCalls = [i \in Invocations |-> 0]

\* ---------------------------------------------------------------- helpers
\* key_to_use = api_key or os.getenv('GEMINI_API_KEY')
ResolveKeyEnvFirst(supplied, fallback) == PyOr(fallback, supplied)
ResolveKey(supplied, fallback) == PyOr(supplied, fallback)

\* [m for m in available_models if 'generateContent' in m.supported_generation_methods]
AllModels(ms) == ms
ContentModels(ms) == SelectSeq(ms, LAMBDA m : m.generateContent)

\* selected_model = content_models[0]
LastModel(content_models) == content_models[Len(content_models)]
SelectedModel(content_models) == content_models[1]

\* the body of generate_content after the remote call has returned r
CheckResponse(r) ==
    IF r.kind = "None" \/ r.kind = "NoText" \/ r.text = <<>>
    THEN Wrap(EmptyGeneration)
    ELSE Returned(Strip(r.text))

\* ---------------------------------------------------------------- actions
\* generate(analysis, api_key) up to the construction of the client
GenerateNoKeyCheck(i) ==
    /\ pc[i] = "idle"
    /\ \E k \in SuppliedValues, a \in Analyses :
        /\ api_key' = [api_key EXCEPT ![i] = k]
        /\ analysis' = [analysis EXCEPT ![i] = a]
        /\ key_to_use' = [key_to_use EXCEPT ![i] = ResolveKey(k, env)]
        /\ pc' = [pc EXCEPT ![i] = "configure"]
        /\ UNCHANGED result
    /\ UNCHANGED <<env, configured, available_models, model, prompt, response,
                   listKey, genKey, genModel, configCalls, listCalls, genCalls>>

Generate(i) ==
    /\ pc[i] = "idle"
    /\ \E k \in SuppliedValues, a \in Analyses :
        /\ api_key' = [api_key EXCEPT ![i] = k]
        /\ analysis' = [analysis EXCEPT ![i] = a]
        /\ key_to_use' = [key_to_use EXCEPT ![i] = ResolveKey(k, env)]
        /\ IF ~Truthy(ResolveKey(k, env))
           THEN /\ result' = [result EXCEPT ![i] = MissingCredential]
                /\ pc' = [pc EXCEPT ![i] = "done"]
           ELSE /\ pc' = [pc EXCEPT ![i] = "configure"]
                /\ UNCHANGED result
    /\ UNCHANGED <<env, configured, available_models, model, prompt, response,
                   listKey, genKey, genModel, configCalls, listCalls, genCalls>>

\* GeminiClient.__init__: genai.configure(api_key=api_key)
Configure(i) ==
    /\ pc[i] = "configure"
    /\ configured' = key_to_use[i]
    /\ configCalls' = [configCalls EXCEPT ![i] = @ + 1]
    /\ pc' = [pc EXCEPT ![i] = "list"]
    /\ UNCHANGED <<env, api_key, analysis, key_to_use, available_models, model,
                   prompt, response, result, listKey, genKey, genModel,
                   listCalls, genCalls>>

\* GeminiClient.__init__: genai.list_models() is issued; it takes no key and
\* runs under the key the library holds
ListCall(i) ==
    /\ pc[i] = "list"
    /\ listKey' = [listKey EXCEPT ![i] = configured]
    /\ listCalls' = [listCalls EXCEPT ![i] = @ + 1]
    /\ pc' = [pc EXCEPT ![i] = "listing"]
    /\ UNCHANGED <<env, configured, api_key, analysis, key_to_use,
                   available_models, model, prompt, response, result, genKey,
                   genModel, configCalls, genCalls>>

\* the provider answers the listing
ListReturn(i) ==
    /\ pc[i] = "listing"
    /\ \E ms \in ModelLists :
        available_models' = [available_models EXCEPT ![i] = ms]
    /\ pc' = [pc EXCEPT ![i] = "select"]
    /\ UNCHANGED <<env, configured, api_key, analysis, key_to_use, model,
                   prompt, response, result, listKey, genKey, genModel,
                   configCalls, listCalls, genCalls>>

\* the listing fails: except Exception as e: ...; raise
ListRaise(i) ==
    /\ pc[i] = "listing"
    /\ result' = [result EXCEPT ![i] = ProviderError]
    /\ pc' = [pc EXCEPT ![i] = "done"]
    /\ UNCHANGED <<env, configured, api_key, analysis, key_to_use,
                   available_models, model, prompt, response, listKey, genKey,
                   genModel, configCalls, listCalls, genCalls>>

\* GeminiClient.__init__: filter, select, bind; the locals end with __init__
SelectModel(i) ==
    /\ pc[i] = "select"
    /\ LET content_models == ContentModels(available_models[i])
       IN  IF content_models = <<>>
           THEN /\ result' = [result EXCEPT ![i] = NoCapableModel]
                /\ pc' = [pc EXCEPT ![i] = "done"]
                /\ UNCHANGED model
           ELSE /\ model' = [model EXCEPT ![i] = SelectedModel(content_models).name]
                /\ pc' = [pc EXCEPT ![i] = "prompt"]
                /\ UNCHANGED result
    /\ available_models' = [available_models EXCEPT ![i] = <<>>]
    /\ UNCHANGED <<env, configured, api_key, analysis, key_to_use, prompt,
                   response, listKey, genKey, genModel, configCalls, listCalls,
                   genCalls>>

\* prompt = self._build_prompt(analysis)
BuildPromptStep(i) ==
    /\ pc[i] = "prompt"
    /\ prompt' = [prompt EXCEPT ![i] = BuildPrompt(analysis[i])]
    /\ pc' = [pc EXCEPT ![i] = "generate"]
    /\ UNCHANGED <<env, configured, api_key, analysis, key_to_use,
                   available_models, model, response, result, listKey, genKey,
                   genModel, configCalls, listCalls, genCalls>>

\* generate_content: self.model.generate_content(prompt, ...) is issued; the
\* timeout argument is not handed to the call
GenCallBeforePrompt(i) ==
    /\ pc[i] = "prompt"
    /\ genKey' = [genKey EXCEPT ![i] = configured]
    /\ genModel' = [genModel EXCEPT ![i] = model[i]]
    /\ genCalls' = [genCalls EXCEPT ![i] = @ + 1]
    /\ pc' = [pc EXCEPT ![i] = "generating"]
    /\ UNCHANGED <<env, configured, api_key, analysis, key_to_use,
                   available_models, model, prompt, response, result, listKey,
                   configCalls, listCalls>>

GenCall(i) ==
    /\ pc[i] = "generate"
    /\ genKey' = [genKey EXCEPT ![i] = configured]
    /\ genModel' = [genModel EXCEPT ![i] = model[i]]
    /\ genCalls' = [genCalls EXCEPT ![i] = @ + 1]
    /\ pc' = [pc EXCEPT ![i] = "generating"]
    /\ UNCHANGED <<env, configured, api_key, analysis, key_to_use,
                   available_models, model, prompt, response, result, listKey,
                   configCalls, listCalls>>

\* the provider answers the generation call; the rest of generate_content
\* and the return of generate
GenReturn(i) ==
    /\ pc[i] = "generating"
    /\ \E r \in Responses :
        /\ response' = [response EXCEPT ![i] = r]
        /\ result' = [result EXCEPT ![i] = CheckResponse(r)]
    /\ pc' = [pc EXCEPT ![i] = "done"]
    /\ UNCHANGED <<env, configured, api_key, analysis, key_to_use,
                   available_models, model, prompt, listKey, genKey, genModel,
                   configCalls, listCalls, genCalls>>

\* the generation call fails in the provider
GenRaiseRetry(i) ==
    /\ pc[i] = "generating"
    /\ pc' = [pc EXCEPT ![i] = "generate"]
    /\ UNCHANGED <<env, configured, api_key, analysis, key_to_use,
                   available_models, model, prompt, response, result, listKey,
                   genKey, genModel, configCalls, listCalls, genCalls>>

GenRaise(i) ==
    /\ pc[i] = "generating"
    /\ result' = [result EXCEPT ![i] = GenerationFailed]
    /\ pc' = [pc EXCEPT ![i] = "done"]
    /\ UNCHANGED <<env, configured, api_key, analysis, key_to_use,
                   available_models, model, prompt, response, listKey, genKey,
                   genModel, configCalls, listCalls, genCalls>>

\* Invocations overlap freely, as under a caller that runs generate on
\* several threads.  The handler of app.py calls generate synchronously from
\* a coroutine, so under that adapter only the behaviours in which one
\* invocation ends before the next begins occur; they are among these.
Next ==
    \E i \in Invocations :
        \/ Generate(i)
        \/ Configure(i)
        \/ ListCall(i)
        \/ ListReturn(i)
        \/ ListRaise(i)
        \/ SelectModel(i)
        \/ BuildPromptStep(i)
        \/ GenCall(i)
        \/ GenReturn(i)
        \/ GenRaise(i)

Spec == Init /\ [][Next]_vars

\* the steps an invocation takes by itself; the provider's answers are not
\* among them
Local(i) ==
    \/ Generate(i)
    \/ Configure(i)
    \/ ListCall(i)
    \/ SelectModel(i)
    \/ BuildPromptStep(i)
    \/ GenCall(i)

FairSpec == Spec /\ \A i \in Invocations : WF_vars(Local(i))

TypeOK ==
    /\ env \in EnvValues
    /\ configured \in {None} \cup Keys \cup {EnvKey}
    /\ \A i \in Invocations :
        /\ pc[i] \in {"idle", "configure", "list", "listing", "select", "prompt",
                      "generate", "generating", "done"}
        /\ api_key[i] \in SuppliedValues
        /\ model[i] \in {None} \cup ModelNames
        /\ response[i] \in Responses \cup {NoResponse}

\* ----------------------------------------------------------------- claims
Answered(i) == response[i] \in Responses
Blank(r) == r.kind = "None" \/ r.kind = "NoText" \/ Strip(r.text) = <<>>
NoNetwork(i) == configCalls[i] = 0 /\ listCalls[i] = 0 /\ genCalls[i] = 0

\* C1: a remote response whose text is missing, empty or whitespace-only
\* never ends in a returned value; generate then ends in a failure.
C1_NonEmptyResult ==
    \A i \in Invocations :
        (Answered(i) /\ Blank(response[i])) => result[i].status = "raised"

\* C2: when the remote call returns no text or empty text, the failure that
\* reaches the caller is EmptyGeneration itself, of a kind other than
\* GenerationFailed and not wrapped as a provider failure.
C2_EmptyGenerationUnwrapped ==
    \A i \in Invocations :
        (Answered(i) /\ (response[i].kind # "Text" \/ response[i].text = <<>>)) =>
            /\ result[i] = EmptyGeneration
            /\ result[i].type # GenerationFailed.type

\* C3: with neither a supplied nor an environment credential, generate ends
\* in MissingCredential and the invocation has made no configure, listing
\* or generation call.
C3_FailFast ==
    \A i \in Invocations :
        /\ (pc[i] # "idle" /\ ~Truthy(api_key[i]) /\ ~Truthy(env)) =>
                (pc[i] = "done" /\ result[i] = MissingCredential /\ NoNetwork(i))
        /\ result[i] = MissingCredential => NoNetwork(i)

C3_Witness ==
    \E i, j \in Invocations :
        /\ result[i] = MissingCredential /\ api_key[i] = "" /\ env = None
        /\ NoNetwork(i)
        /\ genCalls[j] = 1

\* C4: the listing and the generation call of an invocation run under the
\* credential resolved for that invocation.
C4_OwnCredential ==
    \A i \in Invocations :
        /\ listCalls[i] > 0 => listKey[i] = key_to_use[i]
        /\ genCalls[i] > 0 => genKey[i] = key_to_use[i]

\* C5: an invocation whose generation call is pending eventually completes,
\* also when the provider never answers.
C5_Terminates ==
    \A i \in Invocations : (pc[i] = "generating") ~> (pc[i] = "done")

\* C6: the client is constructed with the supplied key when that is present
\* and non-empty, and with the environment fallback only otherwise.
C6_Precedence ==
    \A i \in Invocations :
        configCalls[i] > 0 =>
            /\ api_key[i] \in Keys => key_to_use[i] = api_key[i]
            /\ api_key[i] \in {None, ""} => key_to_use[i] = env
            /\ key_to_use[i] = env => (api_key[i] \in {None, "", env})

C6_Witness ==
    \E i, j \in Invocations :
        /\ configCalls[i] > 0 /\ api_key[i] = "k1" /\ env = EnvKey
        /\ key_to_use[i] = "k1"
        /\ configCalls[j] > 0 /\ api_key[j] = "" /\ key_to_use[j] = EnvKey

\* C7: a listing without any model that supports generateContent ends the
\* invocation in NoCapableModel, and that invocation makes no generation
\* call and no further listing.
NoneCapable(ms) == \A p \in 1..Len(ms) : ~ms[p].generateContent
C7_NoCapableModel ==
    [][\A i \in Invocations :
        /\ (pc[i] = "select" /\ pc'[i] # "select" /\ NoneCapable(available_models[i])) =>
                (pc'[i] = "done" /\ result'[i] = NoCapableModel /\ genCalls'[i] = 0)
        /\ result[i] = NoCapableModel =>
                (result'[i] = NoCapableModel /\ genCalls'[i] = 0 /\ listCalls'[i] = 1)]_vars

C7_Witness ==
    \E i \in Invocations :
        /\ pc[i] = "done" /\ result[i] = NoCapableModel
        /\ listCalls[i] = 1 /\ genCalls[i] = 0 /\ model[i] = None

\* C8: the model bound to the client is the first one, in the order of the
\* listing, that supports generateContent; it stays bound, and the
\* generation call is addressed to it.
FirstCapable(ms) ==
    ms[CHOOSE p \in 1..Len(ms) :
        ms[p].generateContent /\ \A q \in 1..(p - 1) : ~ms[q].generateContent]
C8_FirstCapableModel ==
    [][\A i \in Invocations :
        /\ (pc[i] = "select" /\ pc'[i] # "select" /\ ~NoneCapable(available_models[i])) =>
                (pc'[i] = "prompt" /\ model'[i] = FirstCapable(available_models[i]).name)
        /\ model[i] # None => model'[i] = model[i]
        /\ genCalls'[i] > 0 => (model'[i] # None /\ genModel'[i] = model'[i])]_vars

C8_Witness ==
    \E i, j \in Invocations :
        /\ result[i].status = "returned" /\ genCalls[i] = 1
        /\ model[i] = "m2" /\ genModel[i] = "m2"
        /\ genCalls[j] = 1 /\ genModel[j] = "m1"

\* C9: an invocation makes at most one listing and at most one generation
\* call, and once one has failed the invocation is over.
C9_NoRetries ==
    \A i \in Invocations :
        /\ configCalls[i] <= 1 /\ listCalls[i] <= 1 /\ genCalls[i] <= 1
        /\ result[i].status = "raised" => pc[i] = "done"
        /\ result[i] = ProviderError => (listCalls[i] = 1 /\ genCalls[i] = 0)
        /\ pc[i] = "done" => result[i].status # "pending"

C9_Witness ==
    \E i, j \in Invocations :
        /\ result[i] = GenerationFailed /\ listCalls[i] = 1 /\ genCalls[i] = 1
        /\ result[j] = ProviderError /\ genCalls[j] = 0

\* C10 as stated: the prompt has been built before any activity of the
\* client (configure, listing) takes place.
C10_PromptBeforeClient ==
    \A i \in Invocations :
        (configCalls[i] > 0 \/ listCalls[i] > 0) => prompt[i] # NoPrompt

\* C10 as amended: the credential is resolved first, the client is
\* constructed (configure, listing, model bound) before the prompt is
\* built, and the prompt is built before the generation call is issued.
C10_Order ==
    \A i \in Invocations :
        /\ configCalls[i] > 0 => Truthy(key_to_use[i])
        /\ prompt[i] # NoPrompt =>
                (configCalls[i] = 1 /\ listCalls[i] = 1 /\ model[i] # None
                 /\ prompt[i] = BuildPrompt(analysis[i]))
        /\ genCalls[i] > 0 => prompt[i] # NoPrompt

C10_Witness ==
    \E i \in Invocations :
        /\ genCalls[i] = 1 /\ prompt[i] # NoPrompt /\ listCalls[i] = 1
        /\ result[i].status = "returned"

====
